---- MODULE Spec2Model ----
(***************************************************************************)
(* Filter graph wrappers of ac-ffmpeg: the single-source VideoFilter       *)
(* (codec/filtergraph.rs) and the dual-source VideoKeyer                    *)
(* (codec/video/keyer.rs), driven by one caller against the native          *)
(* filtering engine (the ffw_* functions, which the two files only          *)
(* declare).                                                                *)
(***************************************************************************)
EXTENDS Integers, Sequences, FiniteSets, TLC

\* ------------------------------------------------------------------ bounds

\* Graph handles the engine can hand out in one run.
MaxHandles == 1
\* Frames one source of a graph buffers before the engine reports "full".
SrcCap == 2
\* Timestamps of the frames the caller pushes.
Timestamps == {1, 2}

\* ------------------------------------------------------------------ values

\* Negative engine codes (AVERROR(ENOMEM), AVERROR(EINVAL)).
ErrCodes == {-12, -22}

\* Time bases the caller uses.
TimeBases == {[num |-> 1, den |-> 1], [num |-> 1, den |-> 2]}

CodecParams == {"cp"}

\* Option<T>: None is the empty set, Some(x) the singleton.
None == {}

Some(x) == {x}

Unwrap(opt) == CHOOSE x \in opt : TRUE

unwrap_or(opt, default) == IF opt = None THEN default ELSE Unwrap(opt)

\* The null pointer, as a graph handle and as an endpoint.
NULL == 0

NullEp == [g |-> 0, id |-> 0]

Handles == 1..MaxHandles

\* A frame the caller holds: a timestamp and the time base it is counted in.
Frames == [pts : Timestamps, tb : TimeBases]

\* ------------------------------------------------------- frames, time bases

\* Timestamp::with_time_base: pts counted in `from`, recounted in `to`,
\* rounded to the nearest integer (half away from zero).
Rescale(pts, from, to) ==
    LET b == from.num * to.den
        c == from.den * to.num
    IN  (pts * b + (c \div 2)) \div c

\* VideoFrame::with_time_base: rescales the timestamp into tb.
with_time_base(frame, tb) ==
    [pts |-> Rescale(frame.pts, frame.tb, tb), tb |-> tb]

\* VideoFrame::from_raw_ptr: a frame is the native buffer plus an associated
\* time base; the constructor pairs the two.
from_raw_ptr(fptr, tb) == [pts |-> fptr, tb |-> tb]

\* ------------------------------------------------------------------ results

Res(tag, code, msg, frame) ==
    [tag |-> tag, code |-> code, msg |-> msg, frame |-> frame]

\* Ok(()) and Ok(object)
Ok == Res("Ok", 0, "", None)

\* Ok(None) and Ok(Some(frame)) of take
OkNone == Res("None", 0, "", None)

OkSome(frame) == Res("Some", 0, "", Some(frame))

\* Error::new(msg)
ErrNew(msg) == Res("ErrMsg", 0, msg, None)

\* Error::from_raw_error_code(code), CodecError::from_raw_error_code(code)
ErrCode(code) == Res("Err", code, "", None)

\* CodecError::again(msg)
ErrAgain(msg) == Res("Again", 0, msg, None)

\* panic!(msg)
Panic(msg) == Res("Panic", 0, msg, None)

\* the process died inside a native call
Crash == Res("Crash", 0, "", None)

\* ------------------------------------------------------------------- engine

\* One graph of the engine. st is its lifecycle state; kind names the builder
\* that allocated it; frees and inits count the free and finalize calls made
\* on it; eps counts the endpoints created against it; primary, overlay and
\* sink are the endpoints finalize wired; src is the timestamps of the frames
\* the primary source buffers, oldest first, and ovl the number of frames the
\* overlay source buffers (the model keeps no picture, so nothing of an
\* overlay frame is seen again); eos and ovlEos say which source was told
\* end-of-stream.
NoGraph ==
    [st |-> "unalloc", kind |-> "none", frees |-> 0, inits |-> 0, eps |-> 0,
     primary |-> 0, overlay |-> 0, sink |-> 0,
     src |-> <<>>, ovl |-> 0, eos |-> FALSE, ovlEos |-> FALSE]

\* What a creation call of keyer.rs can return: a code, and whether the
\* pointer it wrote is null (it is whenever the code is negative).
CreateOutcomes ==
    {[ret |-> 0, null |-> FALSE], [ret |-> 0, null |-> TRUE]}
        \cup {[ret |-> e, null |-> TRUE] : e \in ErrCodes}

InitOutcomes == {0} \cup ErrCodes

\* What the engine can be made to report on a push, a flush or a take: 0 is
\* no fault.
Faults == {0} \cup ErrCodes

HasFresh(G) == \E h \in Handles : G[h].st = "unalloc"

Fresh(G) == CHOOSE h \in Handles : G[h].st = "unalloc" /\ \A k \in Handles : G[k].st = "unalloc" => h <= k

\* ffw_filtergraph_new: a fresh graph in staging, owned by the caller.
ffw_filtergraph_new(G, kind) ==
    [G EXCEPT ![Fresh(G)] = [NoGraph EXCEPT !.st = "staging", !.kind = kind]]

\* ffw_filtergraph_free: destroys the graph and with it its endpoints and the
\* frames it buffers; a null handle is left alone.
ffw_filtergraph_free(G, p) ==
    IF p = NULL THEN G
    ELSE [G EXCEPT ![p] = [NoGraph EXCEPT !.st = "freed", !.kind = G[p].kind,
                                            !.frees = G[p].frees + 1,
                                            !.inits = G[p].inits]]

\* The creation of an endpoint against graph h, shared by the source, the
\* overlay stage and the sink: [ep, G]. Nothing is created against a null
\* graph.
NewEndpoint(G, h, ok) ==
    IF ~ok \/ h = NULL THEN [ep |-> NullEp, G |-> G]
    ELSE [ep |-> [g |-> h, id |-> G[h].eps + 1],
          G |-> [G EXCEPT ![h].eps = @ + 1]]

\* keyer.rs: ffw_filtersource_new(&mut source, graph, codec, num, den) -> c_int
ffw_filtersource_new_k(G, h, o) ==
    LET r == NewEndpoint(G, h, ~o.null)
    IN  [ret |-> o.ret, ep |-> r.ep, G |-> r.G]

\* keyer.rs: ffw_filteroverlay_new(&mut overlay, graph) -> c_int
ffw_filteroverlay_new(G, h, o) ==
    LET r == NewEndpoint(G, h, ~o.null)
    IN  [ret |-> o.ret, ep |-> r.ep, G |-> r.G]

\* keyer.rs: ffw_filtersink_new(&mut sink, graph) -> c_int
ffw_filtersink_new_k(G, h, o) ==
    LET r == NewEndpoint(G, h, ~o.null)
    IN  [ret |-> o.ret, ep |-> r.ep, G |-> r.G]

\* filtergraph.rs: ffw_filtersource_new(graph, codec, num, den) -> *mut c_void
ffw_filtersource_new(G, h, ok) == NewEndpoint(G, h, ok)

\* filtergraph.rs: ffw_filtersink_new(graph) -> *mut c_void
ffw_filtersink_new(G, h, ok) == NewEndpoint(G, h, ok)

\* Finalize of either kind: wires the endpoints and makes the graph runnable,
\* or reports a negative code and leaves a failed graph. With a null argument
\* the call is outside the engine's contract: the process dies (ub), or the
\* wiring fails and the engine reports it.
Finalize(G, h, source, overlay_source, sink, nullArg, ret, ub) ==
    IF nullArg /\ ub THEN [ret |-> 0, G |-> G, crash |-> TRUE]
    ELSE IF h = NULL THEN [ret |-> -22, G |-> G, crash |-> FALSE]
    ELSE IF ret < 0 \/ nullArg
    THEN [ret |-> IF ret < 0 THEN ret ELSE -22, crash |-> FALSE,
          G |-> [G EXCEPT ![h].st = "failed", ![h].inits = @ + 1]]
    ELSE [ret |-> ret, crash |-> FALSE,
          G |-> [G EXCEPT ![h] = [@ EXCEPT !.st = "runnable", !.inits = @ + 1,
                                            !.primary = source.id,
                                            !.overlay = overlay_source.id,
                                            !.sink = sink.id]]]

\* keyer.rs: ffw_filtergraph_keyer_init(graph, source, overlay_source, overlay, sink)
ffw_filtergraph_keyer_init(G, h, source, overlay_source, overlay, sink, ret, ub) ==
    Finalize(G, h, source, overlay_source, sink,
             NullEp \in {source, overlay_source, overlay, sink}, ret, ub)

\* filtergraph.rs: ffw_filtergraph_init(graph, source, sink, filters_descr)
ffw_filtergraph_init(G, h, source, sink, ret, ub) ==
    Finalize(G, h, source, NullEp, sink, h = NULL, ret, ub)

\* Whether endpoint ctx belongs to a graph that can run.
Runnable(G, ctx) == ctx.g \in Handles /\ G[ctx.g].st = "runnable"

\* ffw_filtergraph_push_frame(context, frame): frame is None for the null
\* frame (the end-of-stream marker) and Some(pts) otherwise. Answers 1 when
\* the source queued it, 0 when that source's buffer is full, a negative code
\* on an error. A context that is null or of a graph that cannot run is
\* outside the contract: the process dies, or the engine reports the fault.
ffw_filtergraph_push_frame(G, ctx, frame, fault) ==
    IF ~Runnable(G, ctx)
    THEN [ret |-> fault, event |-> "error", G |-> G, crash |-> fault = 0]
    ELSE IF fault < 0
    THEN [ret |-> fault, event |-> "error", G |-> G, crash |-> FALSE]
    ELSE IF ctx.id = G[ctx.g].primary
    THEN IF Len(G[ctx.g].src) >= SrcCap
         THEN [ret |-> 0, event |-> "full", G |-> G, crash |-> FALSE]
         ELSE [ret |-> 1, event |-> "queued", crash |-> FALSE,
               G |-> IF frame = None
                     THEN [G EXCEPT ![ctx.g].eos = TRUE]
                     ELSE [G EXCEPT ![ctx.g].src = Append(@, Unwrap(frame))]]
    ELSE IF ctx.id = G[ctx.g].overlay
    THEN IF G[ctx.g].ovl >= SrcCap
         THEN [ret |-> 0, event |-> "full", G |-> G, crash |-> FALSE]
         ELSE [ret |-> 1, event |-> "queued", crash |-> FALSE,
               G |-> IF frame = None
                     THEN [G EXCEPT ![ctx.g].ovlEos = TRUE]
                     ELSE [G EXCEPT ![ctx.g].ovl = @ + 1]]
    ELSE [ret |-> -22, event |-> "error", G |-> G, crash |-> FALSE]

\* ffw_filtergraph_flush(graph): end-of-stream for the whole graph.
ffw_filtergraph_flush(G, h, fault) ==
    IF h \notin Handles \/ G[h].st # "runnable"
    THEN [ret |-> fault, event |-> "error", G |-> G, crash |-> fault = 0]
    ELSE IF fault < 0
    THEN [ret |-> fault, event |-> "error", G |-> G, crash |-> FALSE]
    ELSE [ret |-> 0, event |-> "queued", crash |-> FALSE,
          G |-> [G EXCEPT ![h].eos = TRUE]]

\* ffw_filtergraph_take_frame(context, &mut frame): runs the graph one step.
\* With a frame buffered in the primary source it produces it (an identity
\* chain keeps its timestamp), merged with the head of the overlay source's
\* buffer, and answers 1; otherwise the merge stage takes up the overlay
\* head, if any, and the answer is 0. A negative code is an error. empty is
\* the engine breaking its contract: 1 with no frame.
ffw_filtergraph_take_frame(G, ctx, fault, empty) ==
    IF ~Runnable(G, ctx)
    THEN [ret |-> fault, fptr |-> None, event |-> "error", G |-> G, crash |-> fault = 0]
    ELSE IF fault < 0
    THEN [ret |-> fault, fptr |-> None, event |-> "error", G |-> G, crash |-> FALSE]
    ELSE IF empty
    THEN [ret |-> 1, fptr |-> None, event |-> "empty", G |-> G, crash |-> FALSE]
    ELSE IF ctx.id # G[ctx.g].sink
    THEN [ret |-> -22, fptr |-> None, event |-> "error", G |-> G, crash |-> FALSE]
    ELSE LET g == G[ctx.g]
             ovl2 == IF g.ovl = 0 THEN 0 ELSE g.ovl - 1
         IN  IF g.src # <<>>
             THEN [ret |-> 1, fptr |-> Some(Head(g.src)), event |-> "produced",
                   crash |-> FALSE,
                   G |-> [G EXCEPT ![ctx.g].src = Tail(@), ![ctx.g].ovl = ovl2]]
             ELSE [ret |-> 0, fptr |-> None, event |-> "none", crash |-> FALSE,
                   G |-> [G EXCEPT ![ctx.g].ovl = ovl2]]

\* -------------------------------------------------------------------- state

VARIABLES
    keyerBuilder,   \* the VideoKeyerBuilder the caller holds
    keyer,          \* the VideoKeyer the caller holds
    filterBuilder,  \* the VideoFilterBuilder the caller holds
    filter,         \* the VideoFilter the caller holds
    graphs,         \* the engine: one record per graph handle
    proc,           \* "running", "panicked" (unwinding) or "crashed"
    last            \* the last operation: its input, engine calls and outcome

vars == <<keyerBuilder, keyer, filterBuilder, filter, graphs, proc, last>>

\* struct VideoKeyerBuilder
NoKeyerBuilder ==
    [live |-> FALSE, ptr |-> NULL, input_time_base |-> None,
     output_time_base |-> None, codec_parameters |-> None]

\* struct VideoKeyer
NoKeyer ==
    [live |-> FALSE, ptr |-> NULL, source |-> NullEp, overlay |-> NullEp,
     sink |-> NullEp, input_time_base |-> None, output_time_base |-> None]

\* struct VideoFilterBuilder
NoFilterBuilder ==
    [live |-> FALSE, ptr |-> NULL, source |-> NullEp, sink |-> NullEp,
     time_base |-> None]

\* struct VideoFilter
NoFilter ==
    [live |-> FALSE, ptr |-> NULL, source |-> NullEp, sink |-> NullEp,
     time_base |-> None]

\* One engine call, as the operations log them: the function, the graph
\* handle it was made on or against, and the endpoint it was handed or, for
\* a creation, the endpoint it wrote (0: the null pointer).
Call(fn, h, id) == [fn |-> fn, h |-> h, id |-> id]

\* The record of an operation: res is what it returned, ret and event the
\* engine's answer to its push, flush or take call, calls its engine calls in
\* order, inp the frame pushed to a primary source and arg the time base the
\* caller passed to a setter or, for build(), the input time base the builder
\* held.
Last(op, res, ret, event, calls, inp, arg) ==
    [op |-> op, tag |-> res.tag, code |-> res.code, msg |-> res.msg,
     frame |-> res.frame, ret |-> ret, event |-> event, calls |-> calls,
     inp |-> inp, arg |-> arg]

\* Where a graph stands in the push/take protocol, as the drop of its filter
\* or keyer logs it: flushed, a source full (backpressure), frames buffered,
\* or nothing pending.
ProtocolState(g) ==
    IF g.eos THEN "flushed"
    ELSE IF Len(g.src) >= SrcCap \/ g.ovl >= SrcCap THEN "backpressure"
    ELSE IF g.src # <<>> \/ g.ovl > 0 THEN "buffered"
    ELSE "idle"

\* The caller drives one pipeline at a time: pipelines share no handle and no
\* operation of one reads the other's state.
Idle ==
    /\ ~keyerBuilder.live /\ ~keyer.live
    /\ ~filterBuilder.live /\ ~filter.live

\* ------------------------------------------------------ VideoKeyerBuilder

\* VideoKeyerBuilder::new: the builder, or a panic on a null graph.
VideoKeyerBuilder_new(G, alloc) ==
    IF ~alloc
    THEN [res |-> Panic("unable to allocate a filtergraph"),
          builder |-> NoKeyerBuilder, G |-> G,
          calls |-> <<Call("ffw_filtergraph_new", NULL, 0)>>]
    ELSE [res |-> Ok,
          builder |-> [NoKeyerBuilder EXCEPT !.live = TRUE, !.ptr = Fresh(G)],
          G |-> ffw_filtergraph_new(G, "keyer"),
          calls |-> <<Call("ffw_filtergraph_new", Fresh(G), 0)>>]

\* impl Drop for VideoKeyerBuilder
drop_VideoKeyerBuilder(self, G) == ffw_filtergraph_free(G, self.ptr)

\* Mutant of ValidateParams: the input time base is checked first.
ValidateParams_time_base_first(self) ==
    IF self.input_time_base = None
    THEN [err |-> Some(ErrNew("input time base not set")), itb |-> None]
    ELSE IF self.codec_parameters = None
    THEN [err |-> Some(ErrNew("codec parameters not set")), itb |-> None]
    ELSE [err |-> None, itb |-> self.input_time_base]

\* Mutant of ValidateParams: the second check reads the output time base.
ValidateParams_wrong_field(self) ==
    IF self.codec_parameters = None
    THEN [err |-> Some(ErrNew("codec parameters not set")), itb |-> None]
    ELSE IF self.output_time_base = None
    THEN [err |-> Some(ErrNew("input time base not set")), itb |-> None]
    ELSE [err |-> None, itb |-> self.output_time_base]

\* build, "vaidate params": the error if a required field is absent, and the
\* input time base.
ValidateParams(self) ==
    IF self.codec_parameters = None
    THEN [err |-> Some(ErrNew("codec parameters not set")), itb |-> None]
    ELSE IF self.input_time_base = None
    THEN [err |-> Some(ErrNew("input time base not set")), itb |-> None]
    ELSE [err |-> None, itb |-> self.input_time_base]

\* Mutant of ResolveOutputTimeBase: the output time base given is ignored.
ResolveOutputTimeBase_input(output_time_base, input_time_base) ==
    input_time_base

\* build, "fallback on input timebase if not supplied"
ResolveOutputTimeBase(output_time_base, input_time_base) ==
    unwrap_or(output_time_base, input_time_base)

\* build, "init filters": the four creations, each checked as the code checks
\* it, stopping at the first check that fails. o gives the engine's answers.
CreateNodes(G, h, o) ==
    LET r1 == ffw_filtersource_new_k(G, h, o.src)
        c1 == <<Call("ffw_filtersource_new", h, r1.ep.id)>>
        r2 == ffw_filtersource_new_k(r1.G, h, o.ovs)
        c2 == Append(c1, Call("ffw_filtersource_new", h, r2.ep.id))
        r3 == ffw_filteroverlay_new(r2.G, h, o.ovl)
        c3 == Append(c2, Call("ffw_filteroverlay_new", h, r3.ep.id))
        r4 == ffw_filtersink_new_k(r3.G, h, o.sink)
        c4 == Append(c3, Call("ffw_filtersink_new", h, r4.ep.id))
        source == r1.ep
        Fail(res, GG, calls) ==
            [err |-> Some(res), G |-> GG, calls |-> calls, source |-> NullEp,
             overlay_source |-> NullEp, overlay |-> NullEp, sink |-> NullEp]
    IN  IF r1.ret < 0 THEN Fail(ErrCode(r1.ret), r1.G, c1)
        ELSE IF source = NullEp
        THEN Fail(ErrNew("unable to allocate a source"), r1.G, c1)
        ELSE IF r2.ret < 0 THEN Fail(ErrCode(r2.ret), r2.G, c2)
        ELSE IF source = NullEp
        THEN Fail(ErrNew("unable to allocate a source"), r2.G, c2)
        ELSE IF r3.ret < 0 THEN Fail(ErrCode(r3.ret), r3.G, c3)
        ELSE IF source = NullEp
        THEN Fail(ErrNew("unable to allocate a source"), r3.G, c3)
        ELSE IF r4.ret < 0 THEN Fail(ErrCode(r4.ret), r4.G, c4)
        ELSE IF r4.ep = NullEp
        THEN Fail(ErrNew("unable to allocate a source"), r4.G, c4)
        ELSE [err |-> None, G |-> r4.G, calls |-> c4, source |-> source,
              overlay_source |-> r2.ep, overlay |-> r3.ep, sink |-> r4.ep]

\* Mutant of TransferPtr: the builder keeps the handle it handed over.
TransferPtr_kept(ptr) == ptr

\* build: what self.ptr holds once the handle is handed to the keyer.
TransferPtr(ptr) == NULL

\* Mutant of MakeKeyer: the overlay field takes the overlay stage, not the
\* overlay source.
MakeKeyer_overlay_stage(ptr, source, overlay_source, overlay, sink, input_time_base, output_time_base) ==
    [live |-> TRUE, ptr |-> ptr, source |-> source, overlay |-> overlay,
     sink |-> sink, input_time_base |-> Some(input_time_base),
     output_time_base |-> Some(output_time_base)]

\* build: the VideoKeyer it returns.
MakeKeyer(ptr, source, overlay_source, overlay, sink, input_time_base, output_time_base) ==
    [live |-> TRUE, ptr |-> ptr, source |-> source, overlay |-> overlay_source,
     sink |-> sink, input_time_base |-> Some(input_time_base),
     output_time_base |-> Some(output_time_base)]

\* VideoKeyerBuilder::build(mut self), to its return: the result, the keyer,
\* the engine and the calls made. self is consumed, so its drop runs on every
\* return path.
VideoKeyerBuilder_build(self, G, o) ==
    LET v == ValidateParams(self)
        self1 == [self EXCEPT !.codec_parameters = None]
        End(s, GG, res, k, calls) ==
            [res |-> res, keyer |-> k, G |-> drop_VideoKeyerBuilder(s, GG),
             calls |-> Append(calls, Call("ffw_filtergraph_free", s.ptr, 0))]
    IN  IF v.err # None THEN End(self1, G, Unwrap(v.err), NoKeyer, <<>>)
        ELSE
        LET input_time_base == Unwrap(v.itb)
            output_time_base ==
                ResolveOutputTimeBase(self.output_time_base, input_time_base)
            c == CreateNodes(G, self.ptr, o)
            f == ffw_filtergraph_keyer_init(c.G, self.ptr, c.source,
                     c.overlay_source, c.overlay, c.sink, o.init, o.ub)
            calls == Append(c.calls, Call("ffw_filtergraph_keyer_init", self.ptr, 0))
        IN  IF c.err # None THEN End(self1, c.G, Unwrap(c.err), NoKeyer, c.calls)
            ELSE IF f.crash
            THEN [res |-> Crash, keyer |-> NoKeyer, G |-> f.G, calls |-> calls]
            ELSE IF f.ret < 0 THEN End(self1, f.G, ErrCode(f.ret), NoKeyer, calls)
            ELSE End([self1 EXCEPT !.ptr = TransferPtr(self.ptr)], f.G, Ok,
                     MakeKeyer(self.ptr, c.source, c.overlay_source, c.overlay,
                               c.sink, input_time_base, output_time_base),
                     calls)

\* ------------------------------------------------------------- VideoKeyer

\* One engine call on an endpoint, as logged.
EpCall(fn, ep) == <<Call(fn, ep.g, ep.id)>>

\* Mutant of try_push_match: only a negative answer is an error, as in
\* VideoFilter::push.
try_push_match_nonneg(ret) == IF ret < 0 THEN ErrCode(ret) ELSE Ok

\* try_push: the match on the engine's answer.
try_push_match(ret) ==
    IF ret = 1 THEN Ok
    ELSE IF ret = 0
    THEN ErrAgain("all frames must be consumed before pushing a new frame")
    ELSE ErrCode(ret)

\* try_push_overlay: the match on the engine's answer.
try_push_overlay_match(ret) ==
    IF ret = 1 THEN Ok
    ELSE IF ret = 0
    THEN ErrAgain("all frames must be consumed before pushing a new frame")
    ELSE ErrCode(ret)

\* Mutant of try_flush_match: every answer but 1 is a fatal error.
try_flush_match_fatal(ret) == IF ret = 1 THEN Ok ELSE ErrCode(ret)

\* try_flush: the match on the engine's answer.
try_flush_match(ret) ==
    IF ret = 1 THEN Ok
    ELSE IF ret = 0
    THEN ErrAgain("all frames must be consumed before flushing")
    ELSE ErrCode(ret)

\* Mutant of VideoKeyer_take_match: an empty payload is returned as an error.
VideoKeyer_take_match_no_panic(ret, fptr, output_time_base) ==
    IF ret = 1
    THEN IF fptr = None THEN ErrNew("no frame received")
         ELSE OkSome(from_raw_ptr(Unwrap(fptr), output_time_base))
    ELSE IF ret = 0 THEN OkNone
    ELSE ErrCode(ret)

\* VideoKeyer::take: the match on the engine's answer.
VideoKeyer_take_match(ret, fptr, output_time_base) ==
    IF ret = 1
    THEN IF fptr = None THEN Panic("no frame received")
         ELSE OkSome(from_raw_ptr(Unwrap(fptr), output_time_base))
    ELSE IF ret = 0 THEN OkNone
    ELSE ErrCode(ret)

\* Mutant of VideoFilter_take_match: only a positive answer is not an error.
VideoFilter_take_match_zero_err(ret, fptr, time_base) ==
    IF ret = 1
    THEN IF fptr = None THEN Panic("no frame received")
         ELSE OkSome(from_raw_ptr(Unwrap(fptr), time_base))
    ELSE ErrCode(ret)

\* VideoFilter::take: the match on the engine's answer.
VideoFilter_take_match(ret, fptr, time_base) ==
    IF ret = 1
    THEN IF fptr = None THEN Panic("no frame received")
         ELSE OkSome(from_raw_ptr(Unwrap(fptr), time_base))
    ELSE IF ret = 0 THEN OkNone
    ELSE ErrCode(ret)

\* What an operation hands back: its result (the crash of the native call
\* instead, when it died there), the engine, the engine's answer, the calls.
Outcome(r, res, calls) ==
    [res |-> IF r.crash THEN Crash ELSE res, G |-> r.G, ret |-> r.ret,
     event |-> r.event, calls |-> calls]

\* Keyer::try_push for VideoKeyer
try_push(self, G, frame, fault) ==
    LET fr == with_time_base(frame, Unwrap(self.input_time_base))
        r == ffw_filtergraph_push_frame(G, self.source, Some(fr.pts), fault)
    IN  Outcome(r, try_push_match(r.ret),
                EpCall("ffw_filtergraph_push_frame", self.source))

\* Mutant of try_push_overlay: on a full source it drains one frame and
\* pushes again.
try_push_overlay_retry(self, G, frame, fault) ==
    LET fr == with_time_base(frame, Unwrap(self.input_time_base))
        r == ffw_filtergraph_push_frame(G, self.overlay, Some(fr.pts), fault)
        t == ffw_filtergraph_take_frame(r.G, self.sink, 0, FALSE)
        r2 == ffw_filtergraph_push_frame(t.G, self.overlay, Some(fr.pts), fault)
        c == EpCall("ffw_filtergraph_push_frame", self.overlay)
    IN  IF r.ret # 0 \/ r.crash THEN Outcome(r, try_push_overlay_match(r.ret), c)
        ELSE Outcome(r2, try_push_overlay_match(r2.ret),
                     c \o EpCall("ffw_filtergraph_take_frame", self.sink) \o c)

\* Keyer::try_push_overlay for VideoKeyer
try_push_overlay(self, G, frame, fault) ==
    LET fr == with_time_base(frame, Unwrap(self.input_time_base))
        r == ffw_filtergraph_push_frame(G, self.overlay, Some(fr.pts), fault)
    IN  Outcome(r, try_push_overlay_match(r.ret),
                EpCall("ffw_filtergraph_push_frame", self.overlay))

\* Mutant of try_flush: the end-of-stream marker goes to the overlay source.
try_flush_overlay(self, G, fault) ==
    LET r == ffw_filtergraph_push_frame(G, self.overlay, None, fault)
    IN  Outcome(r, try_flush_match(r.ret),
                EpCall("ffw_filtergraph_push_frame", self.overlay))

\* Keyer::try_flush for VideoKeyer
try_flush(self, G, fault) ==
    LET r == ffw_filtergraph_push_frame(G, self.source, None, fault)
    IN  Outcome(r, try_flush_match(r.ret),
                EpCall("ffw_filtergraph_push_frame", self.source))

\* Keyer::take for VideoKeyer
VideoKeyer_take(self, G, fault, empty) ==
    LET r == ffw_filtergraph_take_frame(G, self.sink, fault, empty)
    IN  Outcome(r, VideoKeyer_take_match(r.ret, r.fptr, Unwrap(self.output_time_base)),
                EpCall("ffw_filtergraph_take_frame", self.sink))

\* impl Drop for VideoKeyer
drop_VideoKeyer(self, G) == ffw_filtergraph_free(G, self.ptr)

\* ------------------------------------------------- VideoFilterBuilder, VideoFilter

\* VideoFilterBuilder::new. descrOk is whether the description has no NUL
\* byte; o gives the engine's answers. No return path frees the graph.
VideoFilterBuilder_new(G, descrOk, tb, o) ==
    LET graph == IF o.graph THEN Fresh(G) ELSE NULL
        G0 == IF o.graph THEN ffw_filtergraph_new(G, "filter") ELSE G
        c0 == <<Call("ffw_filtergraph_new", graph, 0)>>
        r1 == ffw_filtersource_new(G0, graph, o.src)
        c1 == Append(c0, Call("ffw_filtersource_new", graph, r1.ep.id))
        r2 == ffw_filtersink_new(r1.G, graph, o.sink)
        c2 == Append(c1, Call("ffw_filtersink_new", graph, r2.ep.id))
        f == ffw_filtergraph_init(r2.G, graph, r1.ep, r2.ep, o.init, o.ub)
        c3 == Append(c2, Call("ffw_filtergraph_init", graph, 0))
        End(res, b, GG, calls) ==
            [res |-> res, builder |-> b, G |-> GG, calls |-> calls]
    IN  IF ~descrOk
        THEN End(Panic("invalid filter description"), NoFilterBuilder, G, <<>>)
        ELSE IF graph = NULL /\ o.ub THEN End(Crash, NoFilterBuilder, G0, c1)
        ELSE IF r1.ep = NullEp
        THEN End(Panic("unable to allocate a source"), NoFilterBuilder, r1.G, c1)
        ELSE IF r2.ep = NullEp
        THEN End(Panic("unable to allocate a sink"), NoFilterBuilder, r2.G, c2)
        ELSE IF f.ret < 0 THEN End(ErrCode(f.ret), NoFilterBuilder, f.G, c3)
        ELSE IF graph = NULL
        THEN End(Panic("unable to allocate a filtergraph"), NoFilterBuilder, f.G, c3)
        ELSE End(Ok, [live |-> TRUE, ptr |-> graph, source |-> r1.ep,
                      sink |-> r2.ep, time_base |-> Some(tb)], f.G, c3)

\* VideoFilterBuilder::build: moves the three pointers into the filter.
VideoFilterBuilder_build(self) ==
    [live |-> TRUE, ptr |-> self.ptr, source |-> self.source,
     sink |-> self.sink, time_base |-> self.time_base]

\* Mutant of VideoFilter_push: the answer is matched as in VideoKeyer::try_push.
VideoFilter_push_again(self, G, frame, fault) ==
    LET fr == with_time_base(frame, Unwrap(self.time_base))
        r == ffw_filtergraph_push_frame(G, self.source, Some(fr.pts), fault)
    IN  Outcome(r, try_push_match(r.ret),
                EpCall("ffw_filtergraph_push_frame", self.source))

\* VideoFilter::push
VideoFilter_push(self, G, frame, fault) ==
    LET fr == with_time_base(frame, Unwrap(self.time_base))
        r == ffw_filtergraph_push_frame(G, self.source, Some(fr.pts), fault)
    IN  Outcome(r, IF r.ret < 0 THEN ErrCode(r.ret) ELSE Ok,
                EpCall("ffw_filtergraph_push_frame", self.source))

\* VideoFilter::flush
VideoFilter_flush(self, G, fault) ==
    LET r == ffw_filtergraph_flush(G, self.ptr, fault)
    IN  Outcome(r, IF r.ret < 0 THEN ErrCode(r.ret) ELSE Ok,
                <<Call("ffw_filtergraph_flush", self.ptr, 0)>>)

\* VideoFilter::take
VideoFilter_take(self, G, fault, empty) ==
    LET r == ffw_filtergraph_take_frame(G, self.sink, fault, empty)
    IN  Outcome(r, VideoFilter_take_match(r.ret, r.fptr, Unwrap(self.time_base)),
                EpCall("ffw_filtergraph_take_frame", self.sink))

\* Mutant of drop_VideoFilter: the drop frees nothing.
drop_VideoFilter_forget(self, G) == G

\* impl Drop for VideoFilter
drop_VideoFilter(self, G) == ffw_filtergraph_free(G, self.ptr)

\* ------------------------------------------------------------------ actions

\* Where the process stands after an operation that ended as res.
ProcAfter(res) ==
    IF res.tag = "Panic" THEN "panicked"
    ELSE IF res.tag = "Crash" THEN "crashed"
    ELSE "running"

\* The engine's answers to one build(): those to the calls build() makes. An
\* answer to a call that is not made is not drawn (it is held at success),
\* and ub is drawn only where finalize is handed a null endpoint.
KeyerBuildOutcomes ==
    LET created == [ret |-> 0, null |-> FALSE]
        Rest(o, names) ==
            /\ \A n \in names : o[n] = created
            /\ o.init = 0 /\ ~o.ub
    IN  {o \in [src : CreateOutcomes, ovs : CreateOutcomes, ovl : CreateOutcomes,
                sink : CreateOutcomes, init : InitOutcomes, ub : BOOLEAN] :
            /\ o.src # created => Rest(o, {"ovs", "ovl", "sink"})
            /\ o.ovs.ret < 0 => Rest(o, {"ovl", "sink"})
            /\ o.ovl.ret < 0 => Rest(o, {"sink"})
            /\ o.sink # created => Rest(o, {})
            /\ (~o.ovs.null /\ ~o.ovl.null) => ~o.ub}

FilterNewOutcomes ==
    [graph : BOOLEAN, src : BOOLEAN, sink : BOOLEAN, init : InitOutcomes,
     ub : BOOLEAN]

Init ==
    /\ keyerBuilder = NoKeyerBuilder
    /\ keyer = NoKeyer
    /\ filterBuilder = NoFilterBuilder
    /\ filter = NoFilter
    /\ graphs = [h \in Handles |-> NoGraph]
    /\ proc = "running"
    /\ last = Last("init", Ok, 0, "-", <<>>, None, None)

\* VideoKeyer::builder()
KeyerBuilderNew ==
    \E alloc \in BOOLEAN :
        /\ proc = "running" /\ Idle /\ HasFresh(graphs)
        /\ \E r \in {VideoKeyerBuilder_new(graphs, alloc)} :
               /\ keyerBuilder' = r.builder
               /\ graphs' = r.G
               /\ proc' = ProcAfter(r.res)
               /\ last' = Last("new", r.res, 0, "-", r.calls, None, None)
        /\ UNCHANGED <<keyer, filterBuilder, filter>>

\* VideoKeyerBuilder::input_codec_parameters
InputCodecParameters ==
    \E cp \in CodecParams :
        /\ proc = "running" /\ keyerBuilder.live
        /\ keyerBuilder' = [keyerBuilder EXCEPT !.codec_parameters = Some(cp)]
        /\ last' = Last("input_codec_parameters", Ok, 0, "-", <<>>, None, None)
        /\ UNCHANGED <<keyer, filterBuilder, filter, graphs, proc>>

\* VideoKeyerBuilder::input_time_base
InputTimeBase ==
    \E tb \in TimeBases :
        /\ proc = "running" /\ keyerBuilder.live
        /\ keyerBuilder' = [keyerBuilder EXCEPT !.input_time_base = Some(tb)]
        /\ last' = Last("input_time_base", Ok, 0, "-", <<>>, None, Some(tb))
        /\ UNCHANGED <<keyer, filterBuilder, filter, graphs, proc>>

\* VideoKeyerBuilder::output_time_base
OutputTimeBase ==
    \E tb \in TimeBases :
        /\ proc = "running" /\ keyerBuilder.live
        /\ keyerBuilder' = [keyerBuilder EXCEPT !.output_time_base = Some(tb)]
        /\ last' = Last("output_time_base", Ok, 0, "-", <<>>, None, Some(tb))
        /\ UNCHANGED <<keyer, filterBuilder, filter, graphs, proc>>

\* VideoKeyerBuilder::build, the drop of the consumed builder included. A
\* process that died in the engine drops nothing.
KeyerBuild ==
    \E o \in KeyerBuildOutcomes :
        /\ proc = "running" /\ keyerBuilder.live
        /\ \E r \in {VideoKeyerBuilder_build(keyerBuilder, graphs, o)} :
               /\ keyerBuilder' =
                      IF r.res.tag = "Crash" THEN keyerBuilder ELSE NoKeyerBuilder
               /\ keyer' = r.keyer
               /\ graphs' = r.G
               /\ proc' = ProcAfter(r.res)
               /\ last' = Last("build", r.res, 0, "-", r.calls, None,
                               keyerBuilder.input_time_base)
        /\ UNCHANGED <<filterBuilder, filter>>

\* A VideoKeyerBuilder discarded without build(), also while unwinding.
DropKeyerBuilder ==
    /\ proc \in {"running", "panicked"} /\ keyerBuilder.live
    /\ graphs' = drop_VideoKeyerBuilder(keyerBuilder, graphs)
    /\ keyerBuilder' = NoKeyerBuilder
    /\ last' = Last("drop_builder", Ok, 0, "-",
                    <<Call("ffw_filtergraph_free", keyerBuilder.ptr, 0)>>, None, None)
    /\ UNCHANGED <<keyer, filterBuilder, filter, proc>>

\* The record of a push, flush or take that ended as r.
Ran(op, r, inp) ==
    /\ graphs' = r.G
    /\ proc' = ProcAfter(r.res)
    /\ last' = Last(op, r.res, r.ret, r.event, r.calls, inp, None)

TryPush ==
    \E frame \in Frames, fault \in Faults :
        /\ proc = "running" /\ keyer.live
        /\ \E r \in {try_push(keyer, graphs, frame, fault)} :
               Ran("try_push", r, Some(frame))
        /\ UNCHANGED <<keyerBuilder, keyer, filterBuilder, filter>>

TryPushOverlay ==
    \E frame \in Frames, fault \in Faults :
        /\ proc = "running" /\ keyer.live
        /\ \E r \in {try_push_overlay(keyer, graphs, frame, fault)} :
               Ran("try_push_overlay", r, None)
        /\ UNCHANGED <<keyerBuilder, keyer, filterBuilder, filter>>

TryFlush ==
    \E fault \in Faults :
        /\ proc = "running" /\ keyer.live
        /\ \E r \in {try_flush(keyer, graphs, fault)} :
               Ran("try_flush", r, None)
        /\ UNCHANGED <<keyerBuilder, keyer, filterBuilder, filter>>

KeyerTake ==
    \E fault \in Faults, empty \in BOOLEAN :
        /\ fault < 0 => ~empty
        /\ proc = "running" /\ keyer.live
        /\ \E r \in {VideoKeyer_take(keyer, graphs, fault, empty)} :
               Ran("take", r, None)
        /\ UNCHANGED <<keyerBuilder, keyer, filterBuilder, filter>>

\* The VideoKeyer goes out of scope, also while unwinding.
DropKeyer ==
    /\ proc \in {"running", "panicked"} /\ keyer.live
    /\ graphs' = drop_VideoKeyer(keyer, graphs)
    /\ keyer' = NoKeyer
    /\ last' = Last("drop", Ok, 0, ProtocolState(graphs[keyer.ptr]),
                    <<Call("ffw_filtergraph_free", keyer.ptr, 0)>>, None, None)
    /\ UNCHANGED <<keyerBuilder, filterBuilder, filter, proc>>

\* VideoFilter::builder(codec_parameters, filters_description, time_base)
FilterBuilderNew ==
    \E descrOk \in BOOLEAN, tb \in TimeBases, o \in FilterNewOutcomes :
        /\ proc = "running" /\ Idle /\ HasFresh(graphs)
        /\ \E r \in {VideoFilterBuilder_new(graphs, descrOk, tb, o)} :
               /\ filterBuilder' = r.builder
               /\ graphs' = r.G
               /\ proc' = ProcAfter(r.res)
               /\ last' = Last("filter_builder", r.res, 0, "-", r.calls, None, Some(tb))
        /\ UNCHANGED <<keyerBuilder, keyer, filter>>

\* VideoFilterBuilder::build
FilterBuild ==
    /\ proc = "running" /\ filterBuilder.live
    /\ filter' = VideoFilterBuilder_build(filterBuilder)
    /\ filterBuilder' = NoFilterBuilder
    /\ last' = Last("filter_build", Ok, 0, "-", <<>>, None, None)
    /\ UNCHANGED <<keyerBuilder, keyer, graphs, proc>>

\* A VideoFilterBuilder discarded without build(): the type has no Drop.
DropFilterBuilder ==
    /\ proc \in {"running", "panicked"} /\ filterBuilder.live
    /\ filterBuilder' = NoFilterBuilder
    /\ last' = Last("filter_drop_builder", Ok, 0, "-", <<>>, None, None)
    /\ UNCHANGED <<keyerBuilder, keyer, filter, graphs, proc>>

FilterPush ==
    \E frame \in Frames, fault \in Faults :
        /\ proc = "running" /\ filter.live
        /\ \E r \in {VideoFilter_push(filter, graphs, frame, fault)} :
               Ran("filter_push", r, Some(frame))
        /\ UNCHANGED <<keyerBuilder, keyer, filterBuilder, filter>>

FilterFlush ==
    \E fault \in Faults :
        /\ proc = "running" /\ filter.live
        /\ \E r \in {VideoFilter_flush(filter, graphs, fault)} :
               Ran("filter_flush", r, None)
        /\ UNCHANGED <<keyerBuilder, keyer, filterBuilder, filter>>

FilterTake ==
    \E fault \in Faults, empty \in BOOLEAN :
        /\ fault < 0 => ~empty
        /\ proc = "running" /\ filter.live
        /\ \E r \in {VideoFilter_take(filter, graphs, fault, empty)} :
               Ran("filter_take", r, None)
        /\ UNCHANGED <<keyerBuilder, keyer, filterBuilder, filter>>

\* The VideoFilter goes out of scope, also while unwinding.
DropFilter ==
    /\ proc \in {"running", "panicked"} /\ filter.live
    /\ graphs' = drop_VideoFilter(filter, graphs)
    /\ filter' = NoFilter
    /\ last' = Last("filter_drop", Ok, 0, ProtocolState(graphs[filter.ptr]),
                    <<Call("ffw_filtergraph_free", filter.ptr, 0)>>, None, None)
    /\ UNCHANGED <<keyerBuilder, keyer, filterBuilder, proc>>

Next ==
    \/ KeyerBuilderNew \/ InputCodecParameters \/ InputTimeBase
    \/ OutputTimeBase \/ KeyerBuild \/ DropKeyerBuilder
    \/ TryPush \/ TryPushOverlay \/ TryFlush \/ KeyerTake \/ DropKeyer
    \/ FilterBuilderNew \/ FilterBuild \/ DropFilterBuilder
    \/ FilterPush \/ FilterFlush \/ FilterTake \/ DropFilter

Spec == Init /\ [][Next]_vars

\* ------------------------------------------------------------------- claims

\* The graph the live keyer runs on.
KeyerGraph == graphs[keyer.ptr]

\* Whether a live builder or keyer holds handle h.
KeyerOwned(h) ==
    \/ keyerBuilder.live /\ keyerBuilder.ptr = h
    \/ keyer.live /\ keyer.ptr = h

\* Whether the engine answered the last push, flush or take without a fault
\* of its own.
NoFault(l) == l.event \notin {"error", "empty"}

\* C1: a graph handle allocated by VideoKeyerBuilder::new is never freed
\* while a builder or a keyer holds it, and has been freed exactly once as
\* soon as none does: build() that succeeds leaves the free to the keyer's
\* drop, build() that fails frees the handle once in the builder's drop.
C1_KeyerHandleFreedOnce ==
    \A h \in Handles :
        graphs[h].kind = "keyer" =>
            /\ graphs[h].frees = IF KeyerOwned(h) THEN 0 ELSE 1
            /\ (graphs[h].st = "freed") = ~KeyerOwned(h)

\* C1 witness: build() succeeded (the graph was finalized without error), the
\* keyer was dropped, and the handle counts one free.
C1_Witness ==
    /\ last.op = "drop"
    /\ \E h \in Handles :
           graphs[h].kind = "keyer" /\ graphs[h].inits = 1 /\ graphs[h].frees = 1

\* C2: a push to a source whose buffer holds SrcCap frames that were not
\* taken ends as Backpressure (again) and leaves the engine as it was; a push
\* to a source with room is accepted and its frame is buffered behind the
\* others; no push ends in a crash or a panic; and the push that follows a
\* take() that returned no frame is accepted. (Pushes the engine answers
\* with an error of its own are set aside.)
C2_Backpressure ==
    [][/\ last'.op \in {"try_push", "try_push_overlay"}
           => last'.tag \notin {"Crash", "Panic"}
       /\ (last'.op = "try_push" /\ NoFault(last')) =>
           /\ Len(KeyerGraph.src) >= SrcCap
                  => last'.tag = "Again" /\ graphs' = graphs
           /\ Len(KeyerGraph.src) < SrcCap =>
                  /\ last'.tag = "Ok"
                  /\ Len(KeyerGraph'.src) = Len(KeyerGraph.src) + 1
                  /\ SubSeq(KeyerGraph'.src, 1, Len(KeyerGraph.src)) = KeyerGraph.src
           /\ (last.op = "take" /\ last.tag = "None") => last'.tag = "Ok"
       /\ (last'.op = "try_push_overlay" /\ NoFault(last')) =>
           /\ KeyerGraph.ovl >= SrcCap
                  => last'.tag = "Again" /\ graphs' = graphs
           /\ KeyerGraph.ovl < SrcCap
                  => last'.tag = "Ok" /\ KeyerGraph'.ovl = KeyerGraph.ovl + 1
           /\ (last.op = "take" /\ last.tag = "None") => last'.tag = "Ok"
      ]_vars

\* C2 witness: a push to the full primary source was answered Backpressure.
C2_Witness ==
    /\ last.op = "try_push" /\ last.tag = "Again"
    /\ keyer.live /\ Len(KeyerGraph.src) = SrcCap

\* C3: try_push, try_push_overlay and try_flush return Ok exactly when the
\* engine queued the frame or marker, the retryable again error exactly when
\* the engine found that source's buffer full, and an error carrying the
\* engine's code exactly when the engine reported an error.
C3_PushOutcome ==
    last.op \in {"try_push", "try_push_overlay", "try_flush"} =>
        /\ last.tag \in {"Ok", "Again", "Err"}
        /\ (last.tag = "Ok") = (last.event = "queued")
        /\ (last.tag = "Again") = (last.event = "full")
        /\ (last.tag = "Err") = (last.event = "error")
        /\ last.tag = "Err" => last.code = last.ret /\ last.code < 0

\* C3 witness: try_flush met a full primary source and returned again.
C3_Witness ==
    /\ last.op = "try_flush" /\ last.tag = "Again" /\ last.event = "full"

\* The two errors build() reports for a missing required field.
IsConfigError(l) ==
    /\ l.tag = "ErrMsg"
    /\ l.msg \in {"codec parameters not set", "input time base not set"}

\* C4: build() fails with a ConfigError exactly when the builder it is
\* called on lacks the codec parameters or the input time base, whatever the
\* setters called before and whatever the engine answers.
C4_ConfigErrorIff ==
    [][last'.op = "build" =>
          (IsConfigError(last') =
              (\/ keyerBuilder.codec_parameters = None
               \/ keyerBuilder.input_time_base = None))]_vars

\* C4 witness: build() on a builder with codec parameters and no input time
\* base failed with the ConfigError for the input time base.
C4_Witness ==
    /\ last.op = "build" /\ last.tag = "ErrMsg"
    /\ last.msg = "input time base not set"

\* C5: the keyer of a successful build() has the builder's input time base,
\* and as output time base the one given to output_time_base() if one was
\* given and the input time base otherwise; output_time_base(tb) stores tb.
C5_TimeBases ==
    [][/\ (last'.op = "build" /\ last'.tag = "Ok") =>
              /\ keyer'.live
              /\ keyer'.input_time_base = keyerBuilder.input_time_base
              /\ keyer'.output_time_base =
                     IF keyerBuilder.output_time_base = None
                     THEN keyerBuilder.input_time_base
                     ELSE keyerBuilder.output_time_base
       /\ last'.op = "output_time_base"
              => keyerBuilder'.output_time_base = last'.arg /\ last'.arg # None
       /\ last'.op = "input_time_base"
              => keyerBuilder'.input_time_base = last'.arg /\ last'.arg # None
      ]_vars

\* C5 witness: a keyer was built whose output time base was given and is
\* not its input time base.
C5_Witness ==
    /\ last.op = "build" /\ last.tag = "Ok" /\ keyer.live
    /\ keyer.output_time_base # keyer.input_time_base

\* C6: VideoKeyer::take and VideoFilter::take return a frame exactly when the
\* engine produced one, Ok(None) exactly when the engine had none available,
\* an error carrying the engine's code exactly when the engine reported an
\* error, and panic (no Result) exactly when the engine reported a produced
\* frame with an empty payload.
C6_TakeOutcome ==
    last.op \in {"take", "filter_take"} =>
        /\ last.tag \in {"Some", "None", "Err", "Panic"}
        /\ (last.tag = "Some") = (last.event = "produced")
        /\ last.tag = "Some" => last.frame # None /\ last.ret = 1
        /\ (last.tag = "None") = (last.event = "none")
        /\ last.tag = "None" => last.ret = 0
        /\ (last.tag = "Err") = (last.event = "error")
        /\ last.tag = "Err" => last.code = last.ret /\ last.code < 0
        /\ (last.tag = "Panic") = (last.event = "empty")
        /\ (last.tag = "Panic") = (proc = "panicked")

\* C6 witness: VideoKeyer::take was handed a produced frame with an empty
\* payload and panicked.
C6_Witness ==
    /\ last.op = "take" /\ last.event = "empty" /\ proc = "panicked"

\* The graph the live filter runs on.
FilterGraph == graphs[filter.ptr]

\* Whether a live filter builder or filter holds handle h.
FilterOwned(h) ==
    \/ filterBuilder.live /\ filterBuilder.ptr = h
    \/ filter.live /\ filter.ptr = h

\* C7: while the process runs, a graph handle allocated by
\* VideoFilter::builder() is held by a builder or a filter and not freed, or
\* is held by none and has been freed exactly once: after builder() failed at
\* finalization, after the builder was discarded, after the filter dropped.
C7_FilterHandleFreedOnce ==
    proc = "running" =>
        \A h \in Handles :
            graphs[h].kind = "filter" =>
                /\ graphs[h].frees = IF FilterOwned(h) THEN 0 ELSE 1
                /\ (graphs[h].st = "freed") = ~FilterOwned(h)

\* C8: once the end of the stream was signalled and the primary source holds
\* no frame, take() of a keyer and of a filter returns Ok(None), not a frame
\* and not an error, unless the engine reports a fault of its own; with the
\* overlay source empty too, the call changes nothing in the engine, so that
\* the same holds of every call after it; take() never changes the object.
C8_DrainedTakeNone ==
    [][/\ (last'.op = "take" /\ NoFault(last')
              /\ KeyerGraph.eos /\ KeyerGraph.src = <<>>) =>
              /\ last'.tag = "None"
              /\ KeyerGraph.ovl = 0 => graphs' = graphs
       /\ (last'.op = "filter_take" /\ NoFault(last')
              /\ FilterGraph.eos /\ FilterGraph.src = <<>>) =>
              /\ last'.tag = "None"
              /\ graphs' = graphs
       /\ last'.op \in {"take", "filter_take"}
              => keyer' = keyer /\ filter' = filter
      ]_vars

\* C8 witness: a flushed and drained filter answered take() with Ok(None).
C8_Witness ==
    /\ last.op = "filter_take" /\ last.tag = "None"
    /\ filter.live /\ FilterGraph.eos /\ FilterGraph.src = <<>>

\* C9: try_push calls the engine on the endpoint wired as primary source and
\* try_push_overlay on the endpoint wired as overlay source; neither changes
\* the other source's buffer or end-of-stream mark; and a push to a source
\* with room is accepted while the other source is full, unless the engine
\* reports a fault of its own.
C9_IndependentSources ==
    [][/\ last'.op = "try_push" =>
              /\ last'.calls[1].id = KeyerGraph.primary
              /\ KeyerGraph'.ovl = KeyerGraph.ovl
              /\ KeyerGraph'.ovlEos = KeyerGraph.ovlEos
              /\ (NoFault(last') /\ KeyerGraph.ovl >= SrcCap
                      /\ Len(KeyerGraph.src) < SrcCap) => last'.tag = "Ok"
       /\ last'.op = "try_push_overlay" =>
              /\ last'.calls[1].id = KeyerGraph.overlay
              /\ KeyerGraph'.src = KeyerGraph.src
              /\ KeyerGraph'.eos = KeyerGraph.eos
              /\ (NoFault(last') /\ Len(KeyerGraph.src) >= SrcCap
                      /\ KeyerGraph.ovl < SrcCap) => last'.tag = "Ok"
      ]_vars

\* C9 witness: a push to the overlay source was accepted while the primary
\* source was full.
C9_Witness ==
    /\ last.op = "try_push_overlay" /\ last.tag = "Ok"
    /\ keyer.live /\ Len(KeyerGraph.src) = SrcCap

\* Whether y is x rescaled from time base from to time base to, to within
\* one rounding.
IsRescaled(y, x, from, to) ==
    LET num == x * from.num * to.den
        den == from.den * to.num
        d == y * den - num
    IN  d < den /\ -d < den

\* C10: a frame accepted by try_push is buffered with its timestamp rescaled
\* into the keyer's input time base, and the frame take() returns carries the
\* timestamp of the frame it drains rescaled from the input into the output
\* time base, with the output time base as its time base.
C10_TimestampRebased ==
    [][/\ (last'.op = "try_push" /\ last'.tag = "Ok") =>
              \A f \in last'.inp :
                  IsRescaled(KeyerGraph'.src[Len(KeyerGraph'.src)], f.pts, f.tb,
                             Unwrap(keyer.input_time_base))
       /\ (last'.op = "take" /\ last'.tag = "Some") =>
              \A f \in last'.frame :
                  /\ f.tb = Unwrap(keyer.output_time_base)
                  /\ IsRescaled(f.pts, Head(KeyerGraph.src),
                                Unwrap(keyer.input_time_base),
                                Unwrap(keyer.output_time_base))
      ]_vars

\* Whether the step destroyed graph h, alive and never freed before it, and
\* with it its endpoints and the frames it buffered, by the one call calls,
\* and touched no other graph.
DestroyedOnce(h, calls) ==
    /\ calls = <<Call("ffw_filtergraph_free", h, 0)>>
    /\ h \in Handles
    /\ graphs[h].st = "runnable" /\ graphs[h].frees = 0
    /\ graphs'[h].st = "freed" /\ graphs'[h].frees = 1
    /\ graphs'[h].eps = 0
    /\ graphs'[h].primary = 0 /\ graphs'[h].overlay = 0 /\ graphs'[h].sink = 0
    /\ graphs'[h].src = <<>> /\ graphs'[h].ovl = 0
    /\ \A k \in Handles \ {h} : graphs'[k] = graphs[k]

\* C11: the drop of a VideoKeyer and the drop of a VideoFilter, in whatever
\* protocol state (nothing pushed, frames buffered, a source full, flushed),
\* makes one engine call, the free of the object's graph handle, which was
\* not freed before and is destroyed with all of its endpoints and buffered
\* frames; the object is gone afterwards.
C11_DropDestroysHandle ==
    [][/\ last'.op = "drop" =>
              DestroyedOnce(keyer.ptr, last'.calls) /\ ~keyer'.live
       /\ last'.op = "filter_drop" =>
              DestroyedOnce(filter.ptr, last'.calls) /\ ~filter'.live
      ]_vars

\* C11 witness: a filter was dropped mid-stream, its source full, and its
\* graph counts one free and no endpoint.
C11_Witness ==
    /\ last.op = "filter_drop" /\ last.event = "backpressure"
    /\ \E h \in Handles :
           /\ graphs[h].kind = "filter" /\ graphs[h].st = "freed"
           /\ graphs[h].frees = 1 /\ graphs[h].eps = 0

\* The engine calls that create an endpoint.
CreationFns ==
    {"ffw_filtersource_new", "ffw_filteroverlay_new", "ffw_filtersink_new"}

\* The engine calls that finalize a graph.
FinalizeFns == {"ffw_filtergraph_init", "ffw_filtergraph_keyer_init"}

\* Whether call c is a creation that wrote the null pointer.
NullCreation(c) == c.fn \in CreationFns /\ c.id = 0

\* C12: VideoFilter::builder() on an allocated graph ends in a returned
\* value, never a panic: the builder, an error carrying the negative code when
\* finalization failed, and an allocation error when the source or the sink
\* creation wrote a null pointer, in which case finalize is not called.
C12_FilterBuilderErrors ==
    (/\ last.op = "filter_builder" /\ last.calls # <<>>
     /\ last.calls[1].h # NULL) =>
        /\ last.tag \in {"Ok", "Err", "ErrMsg"}
        /\ last.tag = "Err" =>
               /\ last.code < 0
               /\ last.calls[Len(last.calls)].fn \in FinalizeFns
               /\ graphs[last.calls[1].h].st = "failed"
        /\ (\E i \in DOMAIN last.calls : NullCreation(last.calls[i])) =>
               /\ last.tag = "ErrMsg"
               /\ \A i \in DOMAIN last.calls : last.calls[i].fn \notin FinalizeFns

\* The creation calls of build(), in the order the claim gives them.
KeyerCreationOrder ==
    <<"ffw_filtersource_new", "ffw_filtersource_new", "ffw_filteroverlay_new",
      "ffw_filtersink_new">>

\* C13: build() makes its creation calls in the order primary source,
\* overlay source, overlay stage, sink; after a creation that failed (it
\* wrote no endpoint, with a negative code or without) build() returns an
\* error and makes no further creation call and no finalize call, only the
\* free of the builder's drop; and a keyer that exists holds no null endpoint.
C13_BuildAbortsOnFirstFailure ==
    /\ last.op = "build" =>
           /\ \A i \in DOMAIN last.calls :
                  last.calls[i].fn \in CreationFns =>
                      i <= Len(KeyerCreationOrder)
                          /\ last.calls[i].fn = KeyerCreationOrder[i]
           /\ \A i \in DOMAIN last.calls :
                  NullCreation(last.calls[i]) =>
                      /\ last.tag \in {"Err", "ErrMsg"}
                      /\ \A j \in DOMAIN last.calls :
                             j > i => last.calls[j].fn = "ffw_filtergraph_free"
    /\ keyer.live => NullEp \notin {keyer.source, keyer.overlay, keyer.sink}

\* The engine calls that run a graph.
RunFns ==
    {"ffw_filtergraph_push_frame", "ffw_filtergraph_flush",
     "ffw_filtergraph_take_frame"}

\* C14: for every graph handle, in every step: finalize has been called on
\* it at most once, and by a step that found it in staging and calls it
\* once; a push, flush or take call is made on a handle that is runnable,
\* its one finalize having succeeded; no call but the allocation is made on a
\* handle that is freed or not allocated (the step may allocate it first),
\* the free being the last call of its step; and a handle goes from staging to runnable or failed and from any
\* of these to freed, never back.
C14_Lifecycle ==
    [][/\ \A h \in Handles :
              /\ graphs'[h].inits <= 1
              /\ graphs[h].st = "runnable" => graphs'[h].st \in {"runnable", "freed"}
              /\ graphs[h].st = "failed" => graphs'[h].st \in {"failed", "freed"}
              /\ graphs[h].st = "freed" => graphs'[h] = graphs[h]
              /\ graphs'[h].st = "runnable" => graphs'[h].inits = 1
       /\ \A i \in DOMAIN last'.calls :
              LET c == last'.calls[i]
                  allocated ==
                      \E j \in 1..(i - 1) :
                          last'.calls[j] = Call("ffw_filtergraph_new", c.h, 0)
              IN  /\ c.fn \in RunFns =>
                         /\ c.h \in Handles
                         /\ graphs[c.h].st = "runnable" /\ graphs[c.h].inits = 1
                  /\ (c.fn # "ffw_filtergraph_new" /\ c.h \in Handles) =>
                         allocated \/ graphs[c.h].st \notin {"freed", "unalloc"}
                  /\ c.fn \in FinalizeFns =>
                         /\ c.h \in Handles =>
                                allocated \/ graphs[c.h].st = "staging"
                         /\ \A j \in DOMAIN last'.calls :
                                last'.calls[j].fn \in FinalizeFns => j = i
                  /\ c.fn = "ffw_filtergraph_free" => i = Len(last'.calls)
      ]_vars

\* C14 witness: a keyer went through the whole lifecycle: its graph was
\* finalized once, ran, was flushed, and was destroyed by the keyer's drop.
C14_Witness ==
    /\ last.op = "drop" /\ last.event = "flushed"
    /\ \E h \in Handles :
           /\ graphs[h].kind = "keyer" /\ graphs[h].st = "freed"
           /\ graphs[h].inits = 1 /\ graphs[h].frees = 1

\* C15: in both builders a graph allocation that returned the null handle
\* ends the constructor in a panic, and no creation or finalize call is ever
\* made against the null handle.
C15_NullHandleFatal ==
    last.op \in {"new", "filter_builder", "build"} =>
        /\ (last.calls # <<>> /\ last.calls[1] = Call("ffw_filtergraph_new", NULL, 0))
               => last.tag = "Panic" /\ proc = "panicked"
        /\ \A i \in DOMAIN last.calls :
               last.calls[i].fn \in CreationFns \cup FinalizeFns
                   => last.calls[i].h # NULL

\* C16: try_flush makes its one engine call on the endpoint wired as primary
\* source and leaves the overlay source's buffer and end-of-stream mark as
\* they were; accepted, it marks the primary source's end of stream and
\* queues no frame; and no step of any operation ever marks the end of stream
\* on an overlay source.
C16_FlushPrimaryOnly ==
    [][/\ last'.op = "try_flush" =>
              /\ last'.calls = <<Call("ffw_filtergraph_push_frame", keyer.ptr,
                                      KeyerGraph.primary)>>
              /\ KeyerGraph.primary # KeyerGraph.overlay
              /\ KeyerGraph'.ovl = KeyerGraph.ovl
              /\ KeyerGraph'.ovlEos = KeyerGraph.ovlEos
              /\ KeyerGraph'.src = KeyerGraph.src
              /\ last'.tag = "Ok" => KeyerGraph'.eos
              /\ last'.tag # "Ok" => graphs' = graphs
       /\ \A h \in Handles : ~graphs'[h].ovlEos
      ]_vars

\* C16 witness: try_flush was accepted while the overlay source buffered a
\* frame: the primary source is at end of stream, the overlay source is not.
C16_Witness ==
    /\ last.op = "try_flush" /\ last.tag = "Ok" /\ keyer.live
    /\ KeyerGraph.eos /\ ~KeyerGraph.ovlEos /\ KeyerGraph.ovl > 0

\* C17: try_push, try_push_overlay and try_flush each make exactly one
\* engine call, a push on one of the keyer's two sources, and no take call;
\* when the engine answers that the source is full, the operation returns
\* the retryable again error and the engine is as it was before the call:
\* nothing was drained and nothing queued.
C17_NoInternalRetry ==
    [][last'.op \in {"try_push", "try_push_overlay", "try_flush"} =>
          /\ Len(last'.calls) = 1
          /\ last'.calls[1].fn = "ffw_filtergraph_push_frame"
          /\ last'.calls[1].h = keyer.ptr
          /\ last'.calls[1].id \in {KeyerGraph.primary, KeyerGraph.overlay}
          /\ last'.ret = 0 =>
                 /\ last'.event = "full"
                 /\ last'.tag = "Again"
                 /\ graphs' = graphs
                 /\ keyer' = keyer
      ]_vars

\* C17 witness: try_push_overlay met the overlay source full and returned
\* again, the overlay source still holding SrcCap frames.
C17_Witness ==
    /\ last.op = "try_push_overlay" /\ last.tag = "Again" /\ last.ret = 0
    /\ keyer.live /\ KeyerGraph.ovl = SrcCap

\* C18: when build() fails with a ConfigError its only engine call is the
\* free of the builder's drop: nothing was created against the graph and
\* nothing finalized, before or in the call; the error names the codec
\* parameters when they are absent, the input time base being set or not,
\* and the input time base only when it alone is absent.
C18_ConfigErrorTouchesNothing ==
    [][(last'.op = "build" /\ IsConfigError(last')) =>
          /\ last'.calls = <<Call("ffw_filtergraph_free", keyerBuilder.ptr, 0)>>
          /\ graphs[keyerBuilder.ptr].eps = 0
          /\ graphs[keyerBuilder.ptr].inits = 0
          /\ graphs'[keyerBuilder.ptr].inits = 0
          /\ ~keyer'.live
          /\ keyerBuilder.codec_parameters = None
                 => last'.msg = "codec parameters not set"
          /\ keyerBuilder.codec_parameters # None
                 => last'.msg = "input time base not set"
      ]_vars

\* C18 witness: build() on a builder with neither codec parameters nor input
\* time base failed with the codec-parameters error, having made no call but
\* the free.
C18_Witness ==
    /\ last.op = "build" /\ last.msg = "codec parameters not set"
    /\ last.arg = None /\ Len(last.calls) = 1

\* C19: VideoFilter::push and VideoFilter::flush return an error exactly when
\* the engine's answer is negative, the error carrying that answer, and Ok
\* for every other answer, a refusal by a full source (0) included: neither
\* ever returns the again error. push makes its one engine call on the
\* endpoint wired as the graph's source, flush makes its one on the graph
\* handle and on no endpoint.
C19_FilterPushFlushOutcome ==
    [][/\ last'.op \in {"filter_push", "filter_flush"} =>
              /\ last'.tag \in {"Ok", "Err"}
              /\ (last'.tag = "Err") = (last'.ret < 0)
              /\ last'.tag = "Err" => last'.code = last'.ret
       /\ last'.op = "filter_push" =>
              /\ last'.calls = <<Call("ffw_filtergraph_push_frame", filter.ptr,
                                      FilterGraph.primary)>>
              /\ FilterGraph.primary # FilterGraph.sink
       /\ last'.op = "filter_flush" =>
              /\ last'.calls = <<Call("ffw_filtergraph_flush", filter.ptr, 0)>>
              /\ last'.tag = "Ok" => FilterGraph'.eos
      ]_vars

\* C19 witness: VideoFilter::push met its source full (the engine answered 0)
\* and returned Ok.
C19_Witness ==
    /\ last.op = "filter_push" /\ last.tag = "Ok"
    /\ last.ret = 0 /\ last.event = "full"
    /\ filter.live /\ Len(FilterGraph.src) = SrcCap

====
